---- MODULE Spec2Model ----
(***************************************************************************)
(* A model of benchmark_pipeline.py (3DGenBench): the alignment of two     *)
(* contact matrices (AlignCools), the ectopic-interaction array            *)
(* (EctopicInteractionsArray), the insulation ratio table (InsulationData),*)
(* the permutation test (RandomEctopicIntersections) and the store write   *)
(* that ends CreateDataFiles.                                              *)
(*                                                                         *)
(* Each routine is a unit: Init draws the unit and its inputs, and the     *)
(* unit's actions are the routine's steps.  Floating point is modelled by  *)
(* exact rational arithmetic extended with NaN and the two infinities.     *)
(***************************************************************************)
EXTENDS Integers, Sequences, FiniteSets, TLC

VARIABLES
    unit,               \* the routine being run
    pc,                 \* the position inside it
    \* AlignCools
    PixelsA, PixelsB,           \* the pixel tables fetched from the two inputs
    OutPixelsA, OutPixelsB,     \* the pixel tables written to the two outputs
    \* EctopicInteractionsArray
    DT,                         \* the data type of the pair: "Exp" or "Pred"
    CoolWT, CoolMut,            \* Cool.matrix(balance=False).fetch(Capture) of each input
    CaptureStart, RearrStart, RearrEnd,
    Normalized,                 \* the flag the pipeline passes for DT
    DataWT, DataMut,            \* the locals after line 157
    EctopicArray,               \* the array returned
    EctopicYTrue,               \* the YTrue labels of line 401 (Exp pair)
    \* InsulationData
    InsScores,                  \* Result at line 129: the merged insulation table
    Result,                     \* the table returned
    \* RandomEctopicIntersections
    Arrays,                     \* the numpy buffers, by the name that holds them
    ArgExp, ArgPred,            \* the two arrays as they were at the call
    RandN,                      \* the argument n
    EctopicPredRandom,          \* the buffer the name is bound to, "" before
    Finite, Rand, RandomIntersections,
    CondA, CondB,               \* Condition(MatrixA), Condition(MatrixB) of the last call
    ExpPredIntersection,        \* Real, -1 before it is computed
    \* CreateDataFiles, the SQL block
    bm_metrics,                 \* the committed rows of the table, by ID
    Uncommitted,                \* the rows as the open connection sees them
    UnitID, MetricsData,        \* the ID and the metrics (Data) to store
    sqlite_connection, cursor,  \* "unbound", "open" or "closed"
    StoreError,                 \* the sqlite3.Error raised, "" if none
    Raised,                     \* the exception propagating, "" if none
    \* HashJSON and CheckHash
    HashObject,                 \* the record of the caller: its fields in order
    ObjectAtCall,               \* the record as it was when CheckHash was called
    SignKey,                    \* the key the hash was made with
    Tampered,                   \* a field other than the hash was changed since
    CheckKey,                   \* the key given to CheckHash
    CheckOutcome,               \* what the call gave: "True", "False", an exception
    \* CreateDataFiles, from the temp files to the ectopic arrays
    Datasets,                   \* the pixels of TempFiles, by type
    SampleTypeAligned,          \* the pixels of the files of line 339, by type
    DataTypeAligned,            \* the pixels of the files of line 347, by type
    EctopicArgs                 \* by data type, the two tables handed to
                                \* EctopicInteractionsArray, <<>> before the call

alignVars == <<PixelsA, PixelsB, OutPixelsA, OutPixelsB>>

ectopicVars == <<DT, CoolWT, CoolMut, CaptureStart, RearrStart, RearrEnd,
                 Normalized, DataWT, DataMut, EctopicArray, EctopicYTrue>>

insVars == <<InsScores, Result>>

randVars == <<Arrays, ArgExp, ArgPred, RandN, EctopicPredRandom, Finite, Rand,
              RandomIntersections, CondA, CondB, ExpPredIntersection>>

sqlVars == <<bm_metrics, Uncommitted, UnitID, MetricsData, sqlite_connection, cursor,
             StoreError, Raised>>

hashVars == <<HashObject, ObjectAtCall, SignKey, Tampered, CheckKey, CheckOutcome>>

flowVars == <<Datasets, SampleTypeAligned, DataTypeAligned, EctopicArgs>>

vars == <<unit, pc, alignVars, ectopicVars, insVars, randVars, sqlVars, hashVars,
          flowVars>>

\* The variables of a routine that is not the unit being run
IdleAlign ==
    /\ PixelsA = <<>> /\ PixelsB = <<>> /\ OutPixelsA = <<>> /\ OutPixelsB = <<>>

IdleEctopic ==
    /\ DT = "" /\ CoolWT = <<>> /\ CoolMut = <<>>
    /\ CaptureStart = 0 /\ RearrStart = 0 /\ RearrEnd = 0
    /\ Normalized = FALSE /\ DataWT = <<>> /\ DataMut = <<>> /\ EctopicArray = <<>>
    /\ EctopicYTrue = <<>>

IdleIns == InsScores = <<>> /\ Result = <<>>

IdleRandom ==
    /\ Arrays = <<>> /\ ArgExp = <<>> /\ ArgPred = <<>> /\ RandN = 0
    /\ EctopicPredRandom = "" /\ Finite = <<>> /\ Rand = <<>>
    /\ RandomIntersections = <<>> /\ CondA = <<>> /\ CondB = <<>>
    /\ ExpPredIntersection = -1

IdleSql ==
    /\ bm_metrics = <<>> /\ Uncommitted = <<>> /\ UnitID = "" /\ MetricsData = ""
    /\ sqlite_connection = "unbound" /\ cursor = "unbound"
    /\ StoreError = "" /\ Raised = ""

IdleHash ==
    /\ HashObject = <<>> /\ ObjectAtCall = <<>> /\ SignKey = "" /\ Tampered = FALSE
    /\ CheckKey = "" /\ CheckOutcome = ""

IdleFlow ==
    /\ Datasets = <<>> /\ SampleTypeAligned = <<>> /\ DataTypeAligned = <<>>
    /\ EctopicArgs = <<>>

\* The routines other than the unit being run are idle
OthersIdle(u) ==
    /\ u = "AlignCools" \/ IdleAlign
    /\ u = "EctopicInteractionsArray" \/ IdleEctopic
    /\ u = "InsulationData" \/ IdleIns
    /\ u = "RandomEctopicIntersections" \/ IdleRandom
    /\ u = "CreateDataFiles" \/ IdleSql
    /\ u = "CheckHash" \/ IdleHash
    /\ u = "CreateDataFiles.flow" \/ IdleFlow

(***************************************************************************)
(* Generic helpers.                                                        *)
(***************************************************************************)
Min(a, b) == IF a <= b THEN a ELSE b

Max(a, b) == IF a >= b THEN a ELSE b

Abs(x) == IF x < 0 THEN -x ELSE x

RECURSIVE SumSeq(_)
SumSeq(s) == IF s = <<>> THEN 0 ELSE Head(s) + SumSeq(Tail(s))

RECURSIVE FlatMap(_, _)
\* The concatenation of F(s[1]), F(s[2]), ...
FlatMap(F(_), s) == IF s = <<>> THEN <<>> ELSE F(Head(s)) \o FlatMap(F, Tail(s))

(***************************************************************************)
(* AlignCools.  A pixel table is a sequence of rows                        *)
(* [bin1_id, bin2_id, count], in the order cooler returns them (sorted by  *)
(* bin1_id, then bin2_id), with no key twice.                              *)
(***************************************************************************)
AlignMaxBin == 1

AlignMaxPixels == 2

CountValues == {1, 2}

PixelKeys == {k \in (0..AlignMaxBin) \X (0..AlignMaxBin) : k[1] <= k[2]}

KeyLess(a, b) == a[1] < b[1] \/ (a[1] = b[1] /\ a[2] < b[2])

RECURSIVE PixelTable(_, _)
\* The table holding the keys of K, key k with count f[k], in cooler's order.
PixelTable(K, f) ==
    IF K = {} THEN <<>>
    ELSE LET k == CHOOSE x \in K : \A y \in K : x = y \/ KeyLess(x, y)
         IN  <<[bin1_id |-> k[1], bin2_id |-> k[2], count |-> f[k]]>>
                 \o PixelTable(K \ {k}, f)

PixelTables ==
    UNION {{PixelTable(K, f) : f \in [K -> CountValues]} :
              K \in {S \in SUBSET PixelKeys : Cardinality(S) <= AlignMaxPixels}}

KeyOf(row) == <<row.bin1_id, row.bin2_id>>

KeysOf(table) == {KeyOf(table[i]) : i \in 1..Len(table)}

\* pandas.merge(PixelsA, PixelsB, how="inner", on=["bin1_id", "bin2_id"]):
\* one row per pair of a left row and a right row with the same key, in the
\* order of the left rows; the two count columns become count_x and count_y.
PandasMergeInner(left, right) ==
    LET Matches(l) ==
            LET hits == SelectSeq(right, LAMBDA r : KeyOf(r) = KeyOf(l))
            IN  [j \in 1..Len(hits) |->
                    [bin1_id |-> l.bin1_id, bin2_id |-> l.bin2_id,
                     count_x |-> l.count, count_y |-> hits[j].count]]
    IN  FlatMap(Matches, left)

ProjectCountY_asX(merged) ==
    [i \in 1..Len(merged) |->
        [bin1_id |-> merged[i].bin1_id, bin2_id |-> merged[i].bin2_id,
         count |-> merged[i].count_x]]

\* MergePixels[["bin1_id", "bin2_id", "count_x"]].rename(count_x -> count)
ProjectCountX(merged) ==
    [i \in 1..Len(merged) |->
        [bin1_id |-> merged[i].bin1_id, bin2_id |-> merged[i].bin2_id,
         count |-> merged[i].count_x]]

\* MergePixels[["bin1_id", "bin2_id", "count_y"]].rename(count_y -> count)
ProjectCountY(merged) ==
    [i \in 1..Len(merged) |->
        [bin1_id |-> merged[i].bin1_id, bin2_id |-> merged[i].bin2_id,
         count |-> merged[i].count_y]]

InitAlign ==
    /\ unit = "AlignCools"
    /\ pc = "start"
    /\ PixelsA \in PixelTables
    /\ PixelsB \in PixelTables
    /\ OutPixelsA = <<>>
    /\ OutPixelsB = <<>>
    /\ OthersIdle(unit)

AlignCools ==
    /\ unit = "AlignCools"
    /\ pc = "start"
    /\ LET MergePixels == PandasMergeInner(PixelsA, PixelsB)
       IN  /\ OutPixelsA' = ProjectCountX(MergePixels)
           /\ OutPixelsB' = ProjectCountY(MergePixels)
    /\ pc' = "done"
    /\ UNCHANGED <<unit, PixelsA, PixelsB, ectopicVars, insVars, randVars, sqlVars, hashVars, flowVars>>

NextAlign == AlignCools

SpecAlign == InitAlign /\ [][NextAlign]_vars

CountAt(table, k) ==
    LET i == CHOOSE j \in 1..Len(table) : KeyOf(table[j]) = k IN table[i].count

\* C1: the two aligned tables have the same keys, the keys the two inputs
\* share, one row per shared key, and each carries its own input's count.
C1_AlignedIntersection ==
    (unit = "AlignCools" /\ pc = "done") =>
        LET shared == KeysOf(PixelsA) \cap KeysOf(PixelsB)
        IN  /\ KeysOf(OutPixelsA) = shared
            /\ KeysOf(OutPixelsB) = shared
            /\ Len(OutPixelsA) = Cardinality(shared)
            /\ Len(OutPixelsB) = Cardinality(shared)
            /\ \A k \in shared :
                  /\ CountAt(OutPixelsA, k) = CountAt(PixelsA, k)
                  /\ CountAt(OutPixelsB, k) = CountAt(PixelsB, k)

C1_Witness ==
    /\ unit = "AlignCools" /\ pc = "done"
    /\ KeysOf(PixelsA) \ KeysOf(PixelsB) # {}
    /\ KeysOf(PixelsB) \ KeysOf(PixelsA) # {}
    /\ \E k \in KeysOf(PixelsA) \cap KeysOf(PixelsB) :
          CountAt(PixelsA, k) # CountAt(PixelsB, k)

(***************************************************************************)
(* Floating point.  A value is NaN, an infinity, or the real number        *)
(* n / (d * sqrt(r)) with d > 0 and r > 0; r is 1 except for a z-score,    *)
(* whose denominator is a standard deviation.  Arithmetic is exact: the    *)
(* rounding of binary floating point is not modelled.                      *)
(***************************************************************************)
RECURSIVE GCD(_, _)
GCD(a, b) == IF b = 0 THEN a ELSE GCD(b, a % b)

LCM(a, b) == (a \div GCD(a, b)) * b

Sgn(x) == IF x > 0 THEN 1 ELSE IF x < 0 THEN -1 ELSE 0

NaN == [k |-> "nan", n |-> 0, d |-> 1, r |-> 1]

Inf(s) == [k |-> "inf", n |-> s, d |-> 1, r |-> 1]

\* The rational n / d, d # 0, in lowest terms.
Fin(n, d) ==
    LET g == GCD(Abs(n), Abs(d))
    IN  [k |-> "fin", n |-> Sgn(d) * (n \div g), d |-> Abs(d) \div g, r |-> 1]

Zero == Fin(0, 1)

IsNaN(x) == x.k = "nan"

IsFinite(x) == x.k = "fin"

\* x != 0 (true of NaN, as in Python and numpy)
NonZeroValue(x) == ~(x.k = "fin" /\ x.n = 0)

\* x * y, for values with r = 1
FMul(x, y) ==
    IF x.k = "nan" \/ y.k = "nan" THEN NaN
    ELSE IF x.k = "inf" \/ y.k = "inf"
         THEN IF x.n = 0 \/ y.n = 0 THEN NaN ELSE Inf(Sgn(x.n) * Sgn(y.n))
    ELSE Fin(x.n * y.n, x.d * y.d)

\* x / y with numpy's semantics: a zero divisor gives an infinity, or NaN
\* for 0 / 0, and a warning, never an exception
FDiv(x, y) ==
    IF x.k = "nan" \/ y.k = "nan" THEN NaN
    ELSE IF x.k = "inf"
         THEN IF y.k = "inf" THEN NaN
              ELSE Inf(Sgn(x.n) * (IF y.n < 0 THEN -1 ELSE 1))
    ELSE IF y.k = "inf" THEN Zero
    ELSE IF y.n = 0 THEN (IF x.n = 0 THEN NaN ELSE Inf(Sgn(x.n)))
    ELSE Fin(x.n * y.d, x.d * y.n)

\* x - y, for values with r = 1
FSub(x, y) ==
    IF x.k = "nan" \/ y.k = "nan" THEN NaN
    ELSE IF x.k = "inf"
         THEN IF y.k = "inf" /\ y.n = x.n THEN NaN ELSE x
    ELSE IF y.k = "inf" THEN Inf(-y.n)
    ELSE Fin(x.n * y.d - y.n * x.d, x.d * y.d)

\* floor(sqrt(a / b)) for a >= 0, b > 0
RECURSIVE FloorRoot(_, _, _)
FloorRoot(a, b, t) == IF (t + 1) * (t + 1) * b > a THEN t ELSE FloorRoot(a, b, t + 1)

\* The cast of a finite float to an integer dtype: truncation toward zero.
TruncToInt(x) ==
    IF x.r = 1 THEN Fin(Sgn(x.n) * (Abs(x.n) \div x.d), 1)
    ELSE Fin(Sgn(x.n) * FloorRoot(x.n * x.n, x.d * x.d * x.r, 0), 1)

\* x > t for an integer t >= 0
GreaterThan(x, t) ==
    \/ x.k = "inf" /\ x.n > 0
    \/ x.k = "fin" /\ x.n > 0 /\ x.n * x.n > t * t * x.d * x.d * x.r

\* x < -t for an integer t >= 0
LessThanMinus(x, t) ==
    \/ x.k = "inf" /\ x.n < 0
    \/ x.k = "fin" /\ x.n < 0 /\ x.n * x.n > t * t * x.d * x.d * x.r

C_THRESHOLD == 2

YTrueLabel_notStrict(x) ==
    ~IsNaN(x) /\ (GreaterThan(x, C_THRESHOLD) \/ LessThanMinus(x, C_THRESHOLD)
                     \/ (x.k = "fin" /\ x.n * x.n = C_THRESHOLD * C_THRESHOLD * x.d * x.d * x.r))

\* lambda x: (x == x) and ((x > 2) or (x < -2)), lines 137 and 401
YTrueLabel(x) ==
    ~IsNaN(x) /\ (GreaterThan(x, C_THRESHOLD) \/ LessThanMinus(x, C_THRESHOLD))

(***************************************************************************)
(* EctopicInteractionsArray.  A dense matrix is the sequence of its rows;  *)
(* the matrices cooler returns hold counts (integers).                     *)
(***************************************************************************)
Size == 14

BinSize == 2

C_PERC_TOP == 96

C_PERC_BOTTOM == 4

C_MIN_TRIMMED == 10

Idx == 0..(Size - 1)

RECURSIVE SumOver(_, _, _)
\* F(lo) + ... + F(hi)
SumOver(F(_), lo, hi) == IF lo > hi THEN 0 ELSE F(lo) + SumOver(F, lo + 1, hi)

\* A Size x Size array as the sequence of its rows, from its cells F(r, c),
\* r and c counted from 0
Matrix(F(_, _)) ==
    [r \in 1..Size |-> [c \in 1..Size |-> F(r - 1, c - 1)] \o <<>>] \o <<>>

\* M[r, c], r and c counted from 0
At(M, r, c) == M[r + 1][c + 1]

\* The start or stop of a Python slice of a sequence of length len
SliceIndex(i, len) == IF i < 0 THEN Max(i + len, 0) ELSE Min(i, len)

\* r is one of the indices of Data[a:b+1]
InSlice(r, a, b) == SliceIndex(a, Size) <= r /\ r < SliceIndex(b + 1, Size)

\* (Rearr - CaptureStart) // Cool.binsize
RearrBin(Rearr, Capture, binsize) == (Rearr - Capture) \div binsize

PrepareData_rowsOnly(Cool, RearrStartBin, RearrEndBin) ==
    LET Cell(r, c) ==
            IF InSlice(r, RearrStartBin, RearrEndBin) THEN 0 ELSE At(Cool, r, c)
    IN  Matrix(Cell)

\* PrepareData: the rows and the columns of the rearranged bins are zeroed
\* (nan_to_num leaves a matrix of counts as it is)
PrepareData(Cool, RearrStartBin, RearrEndBin) ==
    LET Cell(r, c) ==
            IF \/ InSlice(r, RearrStartBin, RearrEndBin)
               \/ InSlice(c, RearrStartBin, RearrEndBin)
            THEN 0 ELSE At(Cool, r, c)
    IN  Matrix(Cell)

\* SumData = lambda Data: sum(list(map(sum, Data)))
SumData(Data) ==
    LET RowSum(r) == SumSeq(Data[r + 1]) IN SumOver(RowSum, 0, Size - 1)

MutantFactor_flagRequests(Flag, SumWT, SumMut) ==
    IF Flag THEN FDiv(Fin(SumWT, 1), Fin(SumMut, 1)) ELSE Fin(1, 1)

\* (1 if Normalized else (SumWT / SumMut))
MutantFactor(Flag, SumWT, SumMut) ==
    IF Flag THEN Fin(1, 1) ELSE FDiv(Fin(SumWT, 1), Fin(SumMut, 1))

\* The dtype of DataMut * factor: integer counts times the Python int 1 stay
\* integers, times a float they become floats
IntDtype(Flag) == Flag

\* DataMut * factor
ScaleMatrix(Data, factor) ==
    LET Cell(r, c) == FMul(Fin(At(Data, r, c), 1), factor) IN Matrix(Cell)

\* DiffArray = DataMut - DataWT
Subtract(dMut, dWT) ==
    LET Cell(r, c) == FSub(At(dMut, r, c), Fin(At(dWT, r, c), 1)) IN Matrix(Cell)

\* Coeff = numpy.average(DataWT[X, Y]): the mean of diagonal i of DataWT
Coeff(Data, i) ==
    LET Cell(n) == At(Data, n, n + i)
    IN  FDiv(Fin(SumOver(Cell, 0, Size - i - 1), 1), Fin(Size - i, 1))

\* The loop of lines 162-165: both copies of diagonal i of DiffArray become
\* the upper copy divided by Coeff, cast to DiffArray's dtype on assignment;
\* a diagonal whose Coeff is 0 is left as it is.
NormalizeDiagonals(DiffArray, Data, isInt) ==
    LET coeffs == [i \in 1..Size |-> Coeff(Data, i - 1)] \o <<>>
        Cell(r, c) ==
            LET cf == coeffs[Abs(r - c) + 1]
                q == FDiv(At(DiffArray, Min(r, c), Max(r, c)), cf)
            IN  IF NonZeroValue(cf)
                THEN (IF isInt THEN TruncToInt(q) ELSE q)
                ELSE At(DiffArray, r, c)
    IN  Matrix(Cell)

\* numpy.diag(DiffArray, k=k): entry n (from 1) is DiffArray[n - 1, n - 1 + k]
DiagOf(M, k) == [n \in 1..(Size - k) |-> At(M, n - 1, n - 1 + k)] \o <<>>

\* numpy.nan_to_num(DiffDiags, copy=False): DiffDiags is a Python list of
\* (k, array) pairs of unequal lengths, which numpy turns into a new array of
\* objects and returns unchanged, so the diagonals keep their values.
NanToNumList(DiffDiags) == DiffDiags

\* The entries of a diagonal as integers: entry n is a[n] * scale for one
\* positive rational scale.  The percentile test, the trimmed mean and the
\* z-score are unchanged by a positive scale, so they are computed on a.
ScaledIntegers(kDiag) ==
    LET RECURSIVE Den(_)
        Den(n) == IF n = 0 THEN 1 ELSE LCM(kDiag[n].d, Den(n - 1))
        D == Den(Len(kDiag))
        A == [n \in 1..Len(kDiag) |-> kDiag[n].n * (D \div kDiag[n].d)] \o <<>>
        RECURSIVE Gcd(_)
        Gcd(n) == IF n = 0 THEN 0 ELSE GCD(Abs(A[n]), Gcd(n - 1))
        G == Max(Gcd(Len(kDiag)), 1)
    IN  [n \in 1..Len(kDiag) |-> A[n] \div G] \o <<>>

\* 100 * numpy.percentile(a[nz], q), by linear interpolation between the two
\* nearest ranks; nz is the set of the positions taken, not empty
Percentile100(a, nz, q) ==
    LET N == Cardinality(nz)
        pos == q * (N - 1)
        lo == pos \div 100
        rem == pos % 100
        Kth(j) == CHOOSE v \in {a[n] : n \in nz} :
                      /\ Cardinality({n \in nz : a[n] < v}) <= j
                      /\ j < Cardinality({n \in nz : a[n] <= v})
    IN  IF rem = 0 THEN 100 * Kth(lo)
        ELSE 100 * Kth(lo) + rem * (Kth(lo + 1) - Kth(lo))

TooFewTrimmed_offByFive(m) == m < C_MIN_TRIMMED - 5

\* if len(Diag96Perc) < 10: continue
TooFewTrimmed(m) == m < C_MIN_TRIMMED

\* The positions of Diag96Perc: the items strictly between the two
\* percentiles of the nonzero entries, and not 0.  A NaN among the nonzero
\* entries makes both percentiles NaN, and every comparison with them false.
\* (No infinity arises from counts >= 0: the factor is infinite only when
\* every mutant count is 0, and 0 * infinity is NaN.)
TrimmedPositions(kDiag) ==
    LET nz == {n \in 1..Len(kDiag) : NonZeroValue(kDiag[n])}
    IN  IF nz = {} \/ \E n \in nz : ~IsFinite(kDiag[n]) THEN {}
        ELSE LET a == ScaledIntegers(kDiag)
                 PercTop == Percentile100(a, nz, C_PERC_TOP)
                 PercBottom == Percentile100(a, nz, C_PERC_BOTTOM)
             IN  {n \in 1..Len(kDiag) :
                     PercBottom < 100 * a[n] /\ 100 * a[n] < PercTop /\ a[n] # 0}

\* The sum of a[n] over the positions n of T
SumAt(a, T) == LET Term(n) == IF n \in T THEN a[n] ELSE 0 IN SumOver(Term, 1, Len(a))

\* The sum of a[n] * a[n] over the positions n of T
SumSquaresAt(a, T) ==
    LET Term(n) == IF n \in T THEN a[n] * a[n] ELSE 0 IN SumOver(Term, 1, Len(a))

\* (Contact - DiagMean) / DiagStd.  With m = len(Diag96Perc), S1 its sum and
\* V = m * (sum of squares) - S1 * S1, DiagMean is S1 / m and DiagStd is
\* sqrt(V) / m, so the quotient is (m * Contact - S1) / sqrt(V).
ZScore(num, V) ==
    IF V = 0 THEN (IF num = 0 THEN NaN ELSE Inf(Sgn(num)))
    ELSE IF num = 0 THEN Zero
    ELSE [k |-> "fin", n |-> num, d |-> 1, r |-> V]

ZeroStd_never(m, V) == FALSE

\* if DiagStd == 0: continue (the standard deviation of no item is NaN)
ZeroStd(m, V) == m > 0 /\ V = 0

\* The body of the loop of lines 176-185 for one diagonal: the value left at
\* EctopicArray[k + n, n] for each entry n (from 1) of the diagonal.
DiagZScores(kDiag) ==
    LET len == Len(kDiag)
        zeros == [n \in 1..len |-> Zero]
        nz == {n \in 1..len : NonZeroValue(kDiag[n])}
        T == TrimmedPositions(kDiag)
        m == Cardinality(T)
    IN  IF nz = {} THEN zeros
        ELSE IF TooFewTrimmed(m) THEN zeros
        ELSE LET a == ScaledIntegers(kDiag)
                 sum == SumAt(a, T)
                 V == m * SumSquaresAt(a, T) - sum * sum
             IN  IF ZeroStd(m, V) THEN zeros
                 ELSE [n \in 1..len |->
                          IF NonZeroValue(kDiag[n])
                          THEN ZScore(m * a[n] - sum, V) ELSE Zero] \o <<>>

\* DiffDiags, lines 155-170, from the two fetched matrices
DiffDiagsOf(WT, Mut, Capture, RStart, REnd, Flag) ==
    LET sb == RearrBin(RStart, Capture, BinSize)
        eb == RearrBin(REnd, Capture, BinSize)
        dWT == PrepareData(WT, sb, eb)
        dMut0 == PrepareData(Mut, sb, eb)
        factor == MutantFactor(Flag, SumData(dWT), SumData(dMut0))
        dMut == ScaleMatrix(dMut0, factor)
        norm == NormalizeDiagonals(Subtract(dMut, dWT), dWT, IntDtype(Flag))
    IN  NanToNumList([k \in 1..Size |-> DiagOf(norm, k - 1)] \o <<>>)

TargetCell_upperTriangle(k, n) == <<n, k + n>>

\* The cell the z-score of entry n (from 0) of diagonal k is written to
TargetCell(k, n) == <<k + n, n>>

\* The loop of lines 176-185: EctopicArray = numpy.zeros_like(DataMut) has
\* DataMut's dtype, and a z-score is cast to it when it is assigned.
FillEctopicArray(DiffDiags, isInt) ==
    LET z == [k \in 1..Size |-> DiagZScores(DiffDiags[k])] \o <<>>
        Written(r, c) ==
            LET hits == {kn \in Idx \X Idx :
                            kn[1] + kn[2] < Size /\ TargetCell(kn[1], kn[2]) = <<r, c>>}
            IN  IF hits = {} THEN Zero
                ELSE LET kn == CHOOSE h \in hits : TRUE IN z[kn[1] + 1][kn[2] + 1]
        Cell(r, c) ==
            LET w == Written(r, c)
            IN  IF isInt /\ IsFinite(w) THEN TruncToInt(w) ELSE w
    IN  Matrix(Cell)

(***************************************************************************)
(* The inputs drawn: symmetric matrices of counts, nonzero on the main     *)
(* diagonal and the two next to it, flat or varying along the diagonals,   *)
(* the mutant with an optional bump.                                       *)
(***************************************************************************)
Patterns == {"zero", "flat", "varied", "ramp"}

WTBumps == {{}, {<<8, 8>>}}

MutBumps == {{}, {<<2, 2>>}, {<<5, 6>>}}

PatternCell(pat, r, c) ==
    LET d == Abs(r - c)
        n == Min(r, c)
    IN  IF pat = "zero" \/ d > 1 THEN 0
        ELSE IF pat = "flat" THEN 2 - d
        ELSE IF pat = "varied" THEN 2 - d + (n % 3)
        ELSE n + 1

\* The symmetric matrix of a pattern, with bump added at the cells of bumps
PatternMatrix(pat, bumps, bump) ==
    LET Cell(r, c) ==
            PatternCell(pat, r, c)
                + (IF <<Min(r, c), Max(r, c)>> \in bumps THEN bump ELSE 0)
    IN  Matrix(Cell)

\* The rearranged interval lies inside the capture region
RearrIntervals(Capture) ==
    {<<Capture + s, Min(Capture + s + len, Capture + Size * BinSize)>> :
        s \in {0, 3 * BinSize + 1, (Size - 1) * BinSize}, len \in {0, BinSize}}

\* CreateDataFiles, lines 389-390: Normalized=False for Exp, True for Pred
NormalizedArg(dt) == dt = "Pred"

InitEctopic ==
    /\ unit = "EctopicInteractionsArray"
    /\ pc = "start"
    /\ DT \in {"Exp", "Pred"}
    /\ Normalized = NormalizedArg(DT)
    /\ \E pat \in Patterns, bumps \in WTBumps : CoolWT = PatternMatrix(pat, bumps, 1)
    /\ \E pat \in Patterns, bumps \in MutBumps : CoolMut = PatternMatrix(pat, bumps, 3)
    /\ CaptureStart = BinSize
    /\ \E iv \in RearrIntervals(CaptureStart) : RearrStart = iv[1] /\ RearrEnd = iv[2]
    /\ DataWT = <<>>
    /\ DataMut = <<>>
    /\ EctopicArray = <<>>
    /\ EctopicYTrue = <<>>
    /\ OthersIdle(unit)

EctopicInteractionsArray ==
    /\ unit = "EctopicInteractionsArray"
    /\ pc = "start"
    /\ LET sb == RearrBin(RearrStart, CaptureStart, BinSize)
           eb == RearrBin(RearrEnd, CaptureStart, BinSize)
           dWT == PrepareData(CoolWT, sb, eb)
           dMut == PrepareData(CoolMut, sb, eb)
       IN  /\ DataWT' = dWT
           /\ DataMut' = ScaleMatrix(dMut,
                             MutantFactor(Normalized, SumData(dWT), SumData(dMut)))
    /\ EctopicArray' =
          FillEctopicArray(DiffDiagsOf(CoolWT, CoolMut, CaptureStart, RearrStart,
                                       RearrEnd, Normalized),
                           IntDtype(Normalized))
    /\ pc' = "done"
    /\ UNCHANGED <<unit, DT, CoolWT, CoolMut, CaptureStart, RearrStart, RearrEnd,
                   Normalized, EctopicYTrue, alignVars, insVars, randVars, sqlVars, hashVars, flowVars>>

\* CreateDataFiles, line 401: the ground truth of the Ectopic Interactions PR
\* curve, from the array of the Exp pair
EctopicGroundTruth ==
    /\ unit = "EctopicInteractionsArray"
    /\ pc = "done"
    /\ DT = "Exp"
    /\ EctopicYTrue' =
          LET Cell(r, c) == YTrueLabel(At(EctopicArray, r, c)) IN Matrix(Cell)
    /\ pc' = "labelled"
    /\ UNCHANGED <<unit, DT, CoolWT, CoolMut, CaptureStart, RearrStart, RearrEnd,
                   Normalized, DataWT, DataMut, EctopicArray, alignVars, insVars, randVars, sqlVars, hashVars, flowVars>>

NextEctopic == EctopicInteractionsArray \/ EctopicGroundTruth

SpecEctopic == InitEctopic /\ [][NextEctopic]_vars

\* The bins RearrStartBin..RearrEndBin of the state
RearrStartBin == RearrBin(RearrStart, CaptureStart, BinSize)

RearrEndBin == RearrBin(RearrEnd, CaptureStart, BinSize)

InRearr(r) == RearrStartBin <= r /\ r <= RearrEndBin

EctopicDone == unit = "EctopicInteractionsArray" /\ pc \in {"done", "labelled"}

\* C2: every cell of the returned array whose row or column is a rearranged
\* bin is exactly zero, for both values of the flag and any input there.
C2_RearrBandZero ==
    EctopicDone =>
        \A r \in Idx, c \in Idx :
            (InRearr(r) \/ InRearr(c)) => At(EctopicArray, r, c) = Zero

C2_Witness ==
    /\ EctopicDone
    /\ \E r \in Idx, c \in Idx :
          /\ InRearr(r) \/ InRearr(c)
          /\ At(CoolWT, r, c) # At(CoolMut, r, c)
    /\ \E r \in Idx, c \in Idx : At(EctopicArray, r, c) # Zero

\* The mutant matrix after masking
MaskedMutOfState ==
    LET Cell(r, c) == IF InRearr(r) \/ InRearr(c) THEN 0 ELSE At(CoolMut, r, c)
    IN  Matrix(Cell)

\* DataMut is the masked mutant matrix times SumWT / SumMut
ScaledByRatio ==
    LET masked == MaskedMutOfState
        SumWT == SumData(DataWT)
        SumMut == SumData(masked)
    IN  \A r \in Idx, c \in Idx :
            At(DataMut, r, c) =
                IF SumMut = 0 THEN NaN ELSE Fin(At(masked, r, c) * SumWT, SumMut)

\* DataMut is the masked mutant matrix
Unscaled ==
    LET masked == MaskedMutOfState
    IN  \A r \in Idx, c \in Idx : At(DataMut, r, c) = Fin(At(masked, r, c), 1)

DiffDiagsOfState ==
    DiffDiagsOf(CoolWT, CoolMut, CaptureStart, RearrStart, RearrEnd, Normalized)

TrimmedCount(kDiag) == Cardinality(TrimmedPositions(kDiag))

TrimmedVarianceIsZero(kDiag) ==
    LET a == ScaledIntegers(kDiag)
        T == TrimmedPositions(kDiag)
    IN  T # {} /\ Cardinality(T) * SumSquaresAt(a, T) = SumAt(a, T) * SumAt(a, T)

DiagonalIsZero(k) == \A n \in 0..(Size - k - 1) : At(EctopicArray, k + n, n) = Zero

\* C4: a diagonal with fewer than 10 nonzero entries strictly between its two
\* percentiles, or whose trimmed entries have zero standard deviation, is all
\* zero in the output; so is every diagonal of fewer than 10 cells.
C4_DegenerateDiagonalZero ==
    EctopicDone =>
        LET diags == DiffDiagsOfState
        IN  \A k \in Idx :
               /\ (\/ TrimmedCount(diags[k + 1]) < C_MIN_TRIMMED
                   \/ TrimmedVarianceIsZero(diags[k + 1])) => DiagonalIsZero(k)
               /\ k > Size - C_MIN_TRIMMED => DiagonalIsZero(k)

C4_Witness ==
    /\ EctopicDone
    /\ LET diags == DiffDiagsOfState
       IN  /\ \E k \in Idx :
                 /\ TrimmedCount(diags[k + 1]) >= C_MIN_TRIMMED
                 /\ TrimmedVarianceIsZero(diags[k + 1])
           /\ \E k \in Idx :
                 /\ \E n \in 1..Len(diags[k + 1]) : NonZeroValue(diags[k + 1][n])
                 /\ TrimmedCount(diags[k + 1]) < C_MIN_TRIMMED


(***************************************************************************)
(* InsulationData.  Result is the merged table of line 129: one row for    *)
(* each bin, with the raw insulation score (sum_balanced) of the four      *)
(* datasets.  A score is a number >= 0 or NaN.                             *)
(***************************************************************************)
InsBins == 6

DataTypes == {"Exp", "Pred"}

\* sum_balanced_Wt-{DT} and sum_balanced_Mut-{DT} of a row
WtOf(row, dt) == IF dt = "Exp" THEN row.WtExp ELSE row.WtPred

MutOf(row, dt) == IF dt = "Exp" THEN row.MutExp ELSE row.MutPred

InsRatio_unguarded(wt, mut) == FDiv(mut, wt)

\* lambda x: 0 if x[Wt] == 0 else (x[Mut] / x[Wt])
InsRatio(wt, mut) == IF wt = Zero THEN Zero ELSE FDiv(mut, wt)

\* The column sum_balanced_Mut/Wt-{DT}
RatioColumn(table, dt) ==
    [i \in 1..Len(table) |-> InsRatio(WtOf(table[i], dt), MutOf(table[i], dt))] \o <<>>

\* The index of NonZero: Ratio[Ratio != 0] (NaN != 0 is true)
NonZeroIndex(ratio) == {i \in 1..Len(ratio) : NonZeroValue(ratio[i])}

\* The rows numpy.mean and numpy.std take: they dispatch to Series.mean and
\* Series.std(ddof=0), which skip NaN
SkipNA(ratio, nz) == {i \in nz : ~IsNaN(ratio[i])}

\* The column sum_balanced_sigma_Mut/Wt-{DT} after the concat: (x - Mean) /
\* Std on the rows of NonZero, missing (NaN) on the other rows.  Mean and Std
\* are NaN when no row is taken.  The division is numpy's: Std = 0 makes
\* 0 / 0 = NaN, with no guard in the code.
SigmaColumn(ratio) ==
    LET nz == NonZeroIndex(ratio)
        T == SkipNA(ratio, nz)
        m == Cardinality(T)
        a == ScaledIntegers(ratio)
        sum == SumAt(a, T)
        V == m * SumSquaresAt(a, T) - sum * sum
    IN  [i \in 1..Len(ratio) |->
            IF i \notin nz THEN NaN
            ELSE IF IsNaN(ratio[i]) \/ m = 0 THEN NaN
            ELSE ZScore(m * a[i] - sum, V)] \o <<>>

\* The rows of one data type: Wt and Mut equal on the rows of the set Base,
\* and one of the other kinds on the deviating rows
InsBase == <<Fin(1, 1), Fin(1, 1)>>

InsDeviations ==
    { <<Fin(1, 1), Fin(3, 1)>>, <<Fin(3, 1), Fin(1, 1)>>, <<Zero, Fin(2, 1)>>,
      <<Fin(2, 1), Zero>>, <<NaN, Fin(1, 1)>>, <<Zero, NaN>> }

ExpDeviating == {0, 1, 2}

PredDeviating == {0, 1}

InsColumns(counts) ==
    UNION { { [i \in 1..InsBins |-> IF i \in S THEN f[i] ELSE InsBase] :
                f \in [S -> InsDeviations] } :
            S \in {S \in SUBSET (1..InsBins) : Cardinality(S) \in counts} }

InitIns ==
    /\ unit = "InsulationData"
    /\ pc = "start"
    /\ \E e \in InsColumns(ExpDeviating), p \in InsColumns(PredDeviating) :
          InsScores = [i \in 1..InsBins |->
                          [WtExp |-> e[i][1], MutExp |-> e[i][2],
                           WtPred |-> p[i][1], MutPred |-> p[i][2]]]
    /\ Result = <<>>
    /\ OthersIdle(unit)

\* Lines 130-138
InsulationData ==
    /\ unit = "InsulationData"
    /\ pc = "start"
    /\ LET ratioExp == RatioColumn(InsScores, "Exp")
           ratioPred == RatioColumn(InsScores, "Pred")
           sigmaExp == SigmaColumn(ratioExp)
           sigmaPred == SigmaColumn(ratioPred)
       IN  Result' = [i \in 1..Len(InsScores) |->
                         [WtExp |-> InsScores[i].WtExp, MutExp |-> InsScores[i].MutExp,
                          WtPred |-> InsScores[i].WtPred, MutPred |-> InsScores[i].MutPred,
                          RatioExp |-> ratioExp[i], RatioPred |-> ratioPred[i],
                          SigmaExp |-> sigmaExp[i], SigmaPred |-> sigmaPred[i],
                          YTrue |-> YTrueLabel(sigmaExp[i])]]
    /\ pc' = "done"
    /\ UNCHANGED <<unit, InsScores, alignVars, ectopicVars, randVars, sqlVars, hashVars, flowVars>>

NextIns == InsulationData

SpecIns == InitIns /\ [][NextIns]_vars

InsDone == unit = "InsulationData" /\ pc = "done"

RatioOf(row, dt) == IF dt = "Exp" THEN row.RatioExp ELSE row.RatioPred

SigmaOf(row, dt) == IF dt = "Exp" THEN row.SigmaExp ELSE row.SigmaPred


\* The two scoring routines, each run on its own inputs
InitScoring == InitEctopic \/ InitIns

NextScoring == NextEctopic \/ NextIns

SpecScoring == InitScoring /\ [][NextScoring]_vars

\* C5: no division by zero leaves a NaN or an infinity in what the scoring
\* routines return.  Every cell of the returned ectopic array is finite; in
\* the insulation table, a row whose two scores are numbers has a finite
\* ratio, and, when that ratio is not 0, a finite z-score.
C5_NoNaNFromZeroDenominator ==
    /\ EctopicDone =>
          \A r \in Idx, c \in Idx : IsFinite(At(EctopicArray, r, c))
    /\ InsDone =>
          \A dt \in DataTypes, i \in 1..Len(Result) :
              (IsFinite(WtOf(Result[i], dt)) /\ IsFinite(MutOf(Result[i], dt))) =>
                  /\ IsFinite(RatioOf(Result[i], dt))
                  /\ NonZeroValue(RatioOf(Result[i], dt)) =>
                         IsFinite(SigmaOf(Result[i], dt))

\* C9: a row whose wild-type score is exactly 0 has the ratio 0, whatever the
\* mutant score; a row whose ratio is 0 has no z-score, and is not labelled
\* positive in Y-True.
C9_ZeroWtNeverPositive ==
    InsDone =>
        \A i \in 1..Len(Result) :
            /\ \A dt \in DataTypes :
                  /\ WtOf(Result[i], dt) = Zero => RatioOf(Result[i], dt) = Zero
                  /\ RatioOf(Result[i], dt) = Zero => IsNaN(SigmaOf(Result[i], dt))
            /\ Result[i].RatioExp = Zero => Result[i].YTrue = FALSE

\* A row with wild-type score 0 and a mutant score above 0, one with
\* wild-type score 0 and a predicted mutant score above 0, and z-scores
\* other than 0 on other rows
C9_Witness ==
    /\ InsDone
    /\ \E i \in 1..Len(Result) :
          /\ Result[i].WtExp = Zero
          /\ IsFinite(Result[i].MutExp) /\ Result[i].MutExp.n > 0
    /\ \E i \in 1..Len(Result) :
          /\ Result[i].WtPred = Zero
          /\ IsFinite(Result[i].MutPred) /\ Result[i].MutPred.n > 0
    /\ \E j \in 1..Len(Result) :
          IsFinite(Result[j].SigmaExp) /\ Result[j].SigmaExp.n # 0


(***************************************************************************)
(* RandomEctopicIntersections and IntersectEctopicMatrices.  An array is   *)
(* the sequence of its cells in row-major order, the order of numpy.where  *)
(* and of the assignment through it.  A name holds a reference to a        *)
(* buffer; Arrays maps the reference to the cells.                         *)
(***************************************************************************)
RandCells == 3

MaxShuffles == 1

C_RANDOM_INTER_SIGMA == 2

EctopicArrayExp == "EctopicArrayExp"

EctopicArrayPred == "EctopicArrayPred"

Refs == {EctopicArrayExp, EctopicArrayPred, "EctopicPredRandom"}

\* Condition = lambda Matrix: logical_and(isfinite(Matrix),
\*                                        logical_or(Matrix < -SD, Matrix > SD))
Condition(M, SD) ==
    [c \in 1..Len(M) |->
        IsFinite(M[c]) /\ (LessThanMinus(M[c], SD) \/ GreaterThan(M[c], SD))] \o <<>>

\* numpy.sum(numpy.logical_and(Condition(MatrixA), Condition(MatrixB)))
IntersectEctopicMatrices(MatrixA, MatrixB, SD) ==
    LET a == Condition(MatrixA, SD)
        b == Condition(MatrixB, SD)
    IN  Cardinality({c \in 1..Len(MatrixA) : a[c] /\ b[c]})

NumpyCopy_alias(ref) == ref

\* numpy.copy(a): a buffer of its own, held by EctopicPredRandom
NumpyCopy(ref) == "EctopicPredRandom"

\* numpy.where(numpy.isfinite(a)): the finite positions, ascending
RECURSIVE WhereFinite(_, _)
WhereFinite(a, c) ==
    IF c > Len(a) THEN <<>>
    ELSE (IF IsFinite(a[c]) THEN <<c>> ELSE <<>>) \o WhereFinite(a, c + 1)

\* a[Finite].flatten(): a new array of the values at the positions
Take(a, positions) == [j \in 1..Len(positions) |-> a[positions[j]]] \o <<>>

\* a[Finite] = values
Put(a, positions, values) ==
    [c \in 1..Len(a) |->
        IF \E j \in 1..Len(positions) : positions[j] = c
        THEN values[CHOOSE j \in 1..Len(positions) : positions[j] = c]
        ELSE a[c]] \o <<>>

ShuffleOutcomes_resampled(a) ==
    {[j \in 1..Len(a) |-> a[p[j]]] \o <<>> : p \in [1..Len(a) -> 1..Len(a)]}

\* numpy.random.shuffle(a): any order of the same items
ShuffleOutcomes(a) ==
    {[j \in 1..Len(a) |-> a[p[j]]] \o <<>> :
        p \in {q \in [1..Len(a) -> 1..Len(a)] :
                  \A x, y \in 1..Len(a) : q[x] = q[y] => x = y}}

\* The arrays of the call.  The experimental array runs through the values
\* of ExpValues from some offset; a predicted cell is any of PredValues.
ExpValues ==
    << Fin(3, 1), Inf(1), Fin(-3, 1), Fin(2, 1), NaN, Fin(-2, 1), Zero, Inf(-1) >>

PredValues == {NaN, Inf(1), Fin(3, 1), Fin(-3, 1), Zero}

InitRandom ==
    /\ unit = "RandomEctopicIntersections"
    /\ pc = "start"
    /\ \E shift \in 1..Len(ExpValues) :
          ArgExp = [c \in 1..RandCells |-> ExpValues[((shift + c) % Len(ExpValues)) + 1]]
    /\ ArgPred \in [1..RandCells -> PredValues]
    /\ Arrays = [ref \in Refs |->
                    IF ref = EctopicArrayExp THEN ArgExp
                    ELSE IF ref = EctopicArrayPred THEN ArgPred ELSE <<>>]
    /\ RandN \in 0..MaxShuffles
    /\ EctopicPredRandom = "" /\ Finite = <<>> /\ Rand = <<>>
    /\ RandomIntersections = <<>> /\ CondA = <<>> /\ CondB = <<>>
    /\ ExpPredIntersection = -1
    /\ OthersIdle(unit)

\* Lines 224-227
RandomEntry ==
    /\ unit = "RandomEctopicIntersections"
    /\ pc = "start"
    /\ RandomIntersections' = <<>>
    /\ LET new == NumpyCopy(EctopicArrayPred)
       IN  /\ EctopicPredRandom' = new
           /\ Arrays' = [Arrays EXCEPT ![new] = Arrays[EctopicArrayPred]]
    /\ Finite' = WhereFinite(Arrays[EctopicArrayPred], 1)
    /\ Rand' = Take(Arrays[EctopicArrayPred], Finite')
    /\ pc' = "loop"
    /\ UNCHANGED <<unit, ArgExp, ArgPred, RandN, CondA, CondB, ExpPredIntersection,
                   alignVars, ectopicVars, insVars, sqlVars, hashVars, flowVars>>

\* One iteration of the loop of lines 228-231
ShuffleStep ==
    /\ unit = "RandomEctopicIntersections"
    /\ pc = "loop"
    /\ Len(RandomIntersections) < RandN
    /\ \E shuffled \in ShuffleOutcomes(Rand) :
          LET written == Put(Arrays[EctopicPredRandom], Finite, shuffled)
              after == [Arrays EXCEPT ![EctopicPredRandom] = written]
          IN  /\ Rand' = shuffled
              /\ Arrays' = after
              /\ CondA' = Condition(after[EctopicArrayExp], C_RANDOM_INTER_SIGMA)
              /\ CondB' = Condition(after[EctopicPredRandom], C_RANDOM_INTER_SIGMA)
              /\ RandomIntersections' =
                    Append(RandomIntersections,
                           IntersectEctopicMatrices(after[EctopicArrayExp],
                                                    after[EctopicPredRandom],
                                                    C_RANDOM_INTER_SIGMA))
    /\ UNCHANGED <<unit, pc, ArgExp, ArgPred, RandN, EctopicPredRandom, Finite,
                   ExpPredIntersection, alignVars, ectopicVars, insVars, sqlVars, hashVars, flowVars>>

\* Line 232 and the return
RealIntersection ==
    /\ unit = "RandomEctopicIntersections"
    /\ pc = "loop"
    /\ Len(RandomIntersections) = RandN
    /\ CondA' = Condition(Arrays[EctopicArrayExp], C_RANDOM_INTER_SIGMA)
    /\ CondB' = Condition(Arrays[EctopicArrayPred], C_RANDOM_INTER_SIGMA)
    /\ ExpPredIntersection' =
          IntersectEctopicMatrices(Arrays[EctopicArrayExp], Arrays[EctopicArrayPred],
                                   C_RANDOM_INTER_SIGMA)
    /\ pc' = "done"
    /\ UNCHANGED <<unit, Arrays, ArgExp, ArgPred, RandN, EctopicPredRandom, Finite, Rand,
                   RandomIntersections, alignVars, ectopicVars, insVars, sqlVars, hashVars, flowVars>>

NextRandom == RandomEntry \/ ShuffleStep \/ RealIntersection

SpecRandom == InitRandom /\ [][NextRandom]_vars

RandomDone == unit = "RandomEctopicIntersections" /\ pc = "done"


InRandom == unit = "RandomEctopicIntersections"

\* x is a number of magnitude strictly above t (x is a cell of an input
\* array, so r = 1)
MagnitudeAbove(x, t) == x.k = "fin" /\ x.n * x.n > t * t * x.d * x.d

\* The cells where both arrays are numbers of magnitude above t
DirectOverlap(A, B, t) ==
    Cardinality({c \in 1..Len(A) : MagnitudeAbove(A[c], t) /\ MagnitudeAbove(B[c], t)})

\* C6: Real is the number of cells where both arrays, as they were at the
\* call, are finite and of magnitude strictly above sigma, whatever the
\* number of shuffles before it; the two arrays of the caller are never
\* modified; and the overlap count does not depend on the order of its two
\* arguments.
C6_RealIsDirectOverlap ==
    /\ RandomDone =>
          ExpPredIntersection = DirectOverlap(ArgExp, ArgPred, C_RANDOM_INTER_SIGMA)
    /\ InRandom =>
          /\ Arrays[EctopicArrayExp] = ArgExp
          /\ Arrays[EctopicArrayPred] = ArgPred
    /\ (InRandom /\ pc # "start") =>
          \A a, b \in {Arrays[EctopicArrayExp], Arrays[EctopicArrayPred],
                       Arrays[EctopicPredRandom]} :
              IntersectEctopicMatrices(a, b, C_RANDOM_INTER_SIGMA)
                  = IntersectEctopicMatrices(b, a, C_RANDOM_INTER_SIGMA)

\* Real is above 0 and computed after a shuffle that changed the copy and
\* gave another count, with a cell that is infinite in one array and above
\* sigma in the other
C6_Witness ==
    /\ RandomDone
    /\ RandN >= 1
    /\ ExpPredIntersection >= 1
    /\ Arrays[EctopicPredRandom] # ArgPred
    /\ RandomIntersections[1] # ExpPredIntersection
    /\ \E c \in 1..RandCells :
          ArgExp[c].k = "inf" /\ MagnitudeAbove(ArgPred[c], C_RANDOM_INTER_SIGMA)

\* The number of cells of an array that are calls
Calls(A) == Cardinality({c \in 1..Len(A) : MagnitudeAbove(A[c], C_RANDOM_INTER_SIGMA)})

\* C7: the null distribution has n entries at the return; after any number
\* of iterations the shuffled array holds, at the finite positions of the
\* original, the same values as often as the original does, and at every
\* other position the value of the original; every null count is between 0
\* and the smaller of the numbers of calls of the two arrays.
C7_ShuffleIsRearrangement ==
    /\ RandomDone => Len(RandomIntersections) = RandN
    /\ (InRandom /\ pc # "start") =>
          LET cur == Arrays[EctopicPredRandom]
              finite == {c \in 1..Len(ArgPred) : IsFinite(ArgPred[c])}
          IN  /\ Len(cur) = Len(ArgPred)
              /\ \A c \in (1..Len(ArgPred)) \ finite : cur[c] = ArgPred[c]
              /\ \A v \in {cur[c] : c \in finite} \cup {ArgPred[c] : c \in finite} :
                    Cardinality({c \in finite : cur[c] = v})
                        = Cardinality({c \in finite : ArgPred[c] = v})
              /\ \A j \in 1..Len(RandomIntersections) :
                    /\ 0 <= RandomIntersections[j]
                    /\ RandomIntersections[j] <= Min(Calls(ArgExp), Calls(ArgPred))

\* A shuffle has moved values of an array that has a cell that is not
\* finite, and its null count is above 0
C7_Witness ==
    /\ RandomDone
    /\ RandN >= 1
    /\ Arrays[EctopicPredRandom] # ArgPred
    /\ \E c \in 1..RandCells : ~IsFinite(ArgPred[c])
    /\ RandomIntersections[1] >= 1

\* The three places where the threshold is applied, each on its own inputs
InitThreshold == InitIns \/ InitEctopic \/ InitRandom

NextThreshold == NextIns \/ NextEctopic \/ NextRandom

SpecThreshold == InitThreshold /\ [][NextThreshold]_vars

\* x is not NaN, and x > T or x < -T
ThresholdRule(x) ==
    /\ x.k # "nan"
    /\ x.k = "inf" \/ x.n * x.n > C_THRESHOLD * C_THRESHOLD * x.d * x.d * x.r

\* The arrays of the last call of IntersectEctopicMatrices
LastMatrixA == Arrays[EctopicArrayExp]

LastMatrixB == IF pc = "done" THEN Arrays[EctopicArrayPred] ELSE Arrays[EctopicPredRandom]

\* The labels of the two ground truths follow the threshold rule
LabelsFollowRule ==
    /\ InsDone =>
          \A i \in 1..Len(Result) : Result[i].YTrue = ThresholdRule(Result[i].SigmaExp)
    /\ (unit = "EctopicInteractionsArray" /\ pc = "labelled") =>
          \A r \in Idx, c \in Idx :
              At(EctopicYTrue, r, c) = ThresholdRule(At(EctopicArray, r, c))

IDs == {"unit-1", "unit-2"}

Metrics == {"metrics-1", "metrics-2"}

\* A row of bm_metrics: waiting for its metrics, or holding earlier ones
Rows == { [Status |-> "1", Metrics |-> ""], [Status |-> "0", Metrics |-> "metrics-0"] }

StoreCalls == {"connect", "cursor", "execute", "commit"}

\* update bm_metrics set Status='0', {AllMetricsSQL} where ID='{UnitID}'
UpdateMetrics(table, id, data) ==
    [k \in DOMAIN table |->
        IF k = id THEN [Status |-> "0", Metrics |-> data] ELSE table[k]]

InitSql ==
    /\ unit = "CreateDataFiles"
    /\ pc = "connect"
    /\ \E present \in SUBSET IDs : bm_metrics \in [present -> Rows]
    /\ Uncommitted = <<>>
    /\ UnitID \in IDs
    /\ MetricsData \in Metrics
    /\ sqlite_connection = "unbound" /\ cursor = "unbound"
    /\ StoreError = "" /\ Raised = ""
    /\ OthersIdle(unit)

\* sqlite_connection = sqlite3.connect(SqlDB)
Connect ==
    /\ unit = "CreateDataFiles" /\ pc = "connect"
    /\ sqlite_connection' = "open"
    /\ Uncommitted' = bm_metrics
    /\ pc' = "cursor"
    /\ UNCHANGED <<unit, bm_metrics, UnitID, MetricsData, cursor, StoreError, Raised,
                   alignVars, ectopicVars, insVars, randVars, hashVars, flowVars>>

\* cursor = sqlite_connection.cursor()
Cursor ==
    /\ unit = "CreateDataFiles" /\ pc = "cursor"
    /\ cursor' = "open"
    /\ pc' = "execute"
    /\ UNCHANGED <<unit, bm_metrics, Uncommitted, UnitID, MetricsData, sqlite_connection,
                   StoreError, Raised, alignVars, ectopicVars, insVars, randVars, hashVars, flowVars>>

\* cursor.execute(sqlite_select_query)
Execute ==
    /\ unit = "CreateDataFiles" /\ pc = "execute"
    /\ Uncommitted' = UpdateMetrics(Uncommitted, UnitID, MetricsData)
    /\ pc' = "commit"
    /\ UNCHANGED <<unit, bm_metrics, UnitID, MetricsData, sqlite_connection, cursor,
                   StoreError, Raised, alignVars, ectopicVars, insVars, randVars, hashVars, flowVars>>

\* sqlite_connection.commit()
Commit ==
    /\ unit = "CreateDataFiles" /\ pc = "commit"
    /\ bm_metrics' = Uncommitted
    /\ pc' = "close"
    /\ UNCHANGED <<unit, Uncommitted, UnitID, MetricsData, sqlite_connection, cursor,
                   StoreError, Raised, alignVars, ectopicVars, insVars, randVars, hashVars, flowVars>>

\* cursor.close(), the end of the try block
CursorClose ==
    /\ unit = "CreateDataFiles" /\ pc = "close"
    /\ cursor' = "closed"
    /\ pc' = "finally"
    /\ UNCHANGED <<unit, bm_metrics, Uncommitted, UnitID, MetricsData, sqlite_connection,
                   StoreError, Raised, alignVars, ectopicVars, insVars, randVars, hashVars, flowVars>>

\* One of the four calls raises an sqlite3.Error: the name it assigns stays
\* as it was, and control goes to the except clause
StoreCallRaises ==
    /\ unit = "CreateDataFiles" /\ pc \in StoreCalls
    /\ StoreError' = "sqlite3.Error at " \o pc
    /\ Raised' = StoreError'
    /\ pc' = "except"
    /\ UNCHANGED <<unit, bm_metrics, Uncommitted, UnitID, MetricsData, sqlite_connection,
                   cursor, alignVars, ectopicVars, insVars, randVars, hashVars, flowVars>>

\* except sqlite3.Error as error: logging.info(...); raise error
Except ==
    /\ unit = "CreateDataFiles" /\ pc = "except"
    /\ Raised' = StoreError
    /\ pc' = "finally"
    /\ UNCHANGED <<unit, bm_metrics, Uncommitted, UnitID, MetricsData, sqlite_connection,
                   cursor, StoreError, alignVars, ectopicVars, insVars, randVars, hashVars, flowVars>>

\* The exception propagating after the test of line 442: reading a local
\* name that was never assigned raises UnboundLocalError, which takes the
\* place of the exception that was propagating
ReadConnection(conn, raised) == IF conn = "unbound" THEN "UnboundLocalError" ELSE raised

\* finally: if (sqlite_connection): sqlite_connection.close().  A
\* Connection is true; closing it drops what was not committed.
Finally ==
    /\ unit = "CreateDataFiles" /\ pc = "finally"
    /\ Raised' = ReadConnection(sqlite_connection, Raised)
    /\ sqlite_connection' = IF sqlite_connection = "open" THEN "closed" ELSE sqlite_connection
    /\ Uncommitted' = <<>>
    /\ pc' = IF Raised' = "" THEN "returned" ELSE "raised"
    /\ UNCHANGED <<unit, bm_metrics, UnitID, MetricsData, cursor, StoreError,
                   alignVars, ectopicVars, insVars, randVars, hashVars, flowVars>>

NextSql == Connect \/ Cursor \/ Execute \/ Commit \/ CursorClose \/ StoreCallRaises
               \/ Except \/ Finally

SpecSql == InitSql /\ [][NextSql]_vars

InSql == unit = "CreateDataFiles"

\* C10: whichever of connect, cursor, execute and commit fails, the error
\* that leaves the function is the error the store raised, a connection that
\* was acquired is closed by then, and no store error is swallowed; when no
\* call fails the function returns with the connection closed.
C10_StoreErrorSurfaced ==
    /\ (InSql /\ pc = "raised") =>
          /\ StoreError # ""
          /\ Raised = StoreError
          /\ sqlite_connection # "open"
    /\ (InSql /\ pc = "returned") =>
          /\ StoreError = ""
          /\ sqlite_connection = "closed"

\* The same, for a failure after the connection was acquired; and a failure
\* of any of the four calls leaves the committed rows as they were
StoreFailureAfterConnect ==
    /\ (InSql /\ pc = "raised" /\ StoreError # "sqlite3.Error at connect") =>
          /\ Raised = StoreError
          /\ sqlite_connection = "closed"
    /\ (InSql /\ pc = "raised" /\ StoreError = "sqlite3.Error at connect") =>
          /\ Raised = "UnboundLocalError"
          /\ sqlite_connection = "unbound"
    /\ (InSql /\ pc = "returned") =>
          /\ StoreError = "" /\ sqlite_connection = "closed"
          /\ \A k \in DOMAIN bm_metrics :
                k = UnitID => bm_metrics[k] = [Status |-> "0", Metrics |-> MetricsData]


(***************************************************************************)
(* HashJSON and CheckHash.  A record is the sequence of its <<field,       *)
(* value>> pairs in insertion order, the order json.dumps writes them in;  *)
(* fields and values are strings.                                          *)
(***************************************************************************)
\* The names lines 5-26 bind in the module
ModuleImports ==
    { "contextmanager", "insulation", "hicrep", "cpu_count", "precision_recall_curve",
      "auc", "argparse", "cooler", "datetime", "hashlib", "json", "logging", "plt",
      "numpy", "os", "sys", "pandas", "pandarallel", "subprocess", "sqlite3",
      "tempfile", "time", "warnings", "requests" }

HashField == "__hash__"

\* json.dumps of a string without characters to escape
JsonString(str) == "\"" \o str \o "\""

\* json.dumps(Object, ensure_ascii=False) of a record of strings
RECURSIVE JsonItems(_, _)
JsonItems(Object, i) ==
    IF i > Len(Object) THEN ""
    ELSE (IF i > 1 THEN ", " ELSE "")
             \o JsonString(Object[i][1]) \o ": " \o JsonString(Object[i][2])
             \o JsonItems(Object, i + 1)

JsonDumps(Object) == "{" \o JsonItems(Object, 1) \o "}"

\* hashlib.sha256(data).hexdigest(), taken to be free of collisions: the
\* digest stands for the data it was made of
Sha256Hex(data) == "sha256:" \o data

\* Line 278
HashJSON(Object, Key) == Sha256Hex(JsonDumps(Object) \o Key)

HasField(Object, field) == \E i \in 1..Len(Object) : Object[i][1] = field

\* Object[field]
GetField(Object, field) ==
    Object[CHOOSE i \in 1..Len(Object) : Object[i][1] = field][2]

\* del Object[field]
DelField(Object, field) == SelectSeq(Object, LAMBDA item : item[1] # field)

\* What a call of CheckHash gives, lines 280-284: the value returned, or
\* the exception raised.  Line 281 reads the global name copy first.
CheckHash(Object, key) ==
    IF "copy" \notin ModuleImports THEN "NameError"
    ELSE IF ~HasField(Object, HashField) THEN "KeyError"
    ELSE IF HashJSON(DelField(Object, HashField), key) = GetField(Object, HashField)
         THEN "True" ELSE "False"

\* The records that get a hash, and the changes made to them afterwards
HashFields == {"a", "b"}

HashValues == {"x", "y"}

HashKeys == {"key-1", "key-2"}

HashRecords ==
    {<<>>}
      \cup {<<<<f, v>>>> : f \in HashFields, v \in HashValues}
      \cup {<< <<fg[1], v>>, <<fg[2], w>> >> :
               fg \in {p \in HashFields \X HashFields : p[1] # p[2]},
               v \in HashValues, w \in HashValues}

\* One field changed, dropped or added
Tamperings(R) ==
    {[R EXCEPT ![iv[1]] = <<R[iv[1]][1], iv[2]>>] :
        iv \in {p \in (1..Len(R)) \X HashValues : p[2] # R[p[1]][2]}}
      \cup {DelField(R, R[i][1]) : i \in 1..Len(R)}
      \cup {Append(R, <<"c", v>>) : v \in HashValues}

InitHash ==
    /\ unit = "CheckHash"
    /\ pc = "start"
    /\ SignKey \in HashKeys
    /\ CheckKey \in HashKeys
    /\ \E R \in HashRecords :
          \E T \in {R} \cup Tamperings(R) :
              /\ HashObject = Append(T, <<HashField, HashJSON(R, SignKey)>>)
              /\ Tampered = (T # R)
    /\ ObjectAtCall = HashObject
    /\ CheckOutcome = ""
    /\ OthersIdle(unit)

\* The call CheckHash(HashObject, CheckKey)
CallCheckHash ==
    /\ unit = "CheckHash"
    /\ pc = "start"
    /\ CheckOutcome' = CheckHash(HashObject, CheckKey)
    /\ pc' = "done"
    /\ UNCHANGED <<unit, HashObject, ObjectAtCall, SignKey, Tampered, CheckKey,
                   alignVars, ectopicVars, insVars, randVars, sqlVars, flowVars>>

NextHash == CallCheckHash

SpecHash == InitHash /\ [][NextHash]_vars

HashDone == unit = "CheckHash" /\ pc = "done"

\* C11: CheckHash of a record extended with its hash returns true with the
\* key the hash was made with, returns false when another field was changed
\* since, and leaves the record passed to it as it was.
C11_HashRoundTrip ==
    HashDone =>
        /\ (~Tampered /\ CheckKey = SignKey) => CheckOutcome = "True"
        /\ (Tampered /\ CheckKey = SignKey) => CheckOutcome = "False"
        /\ HashObject = ObjectAtCall

\* Every call of CheckHash ends in NameError, and the record is as it was
CheckHashNeverReturns ==
    HashDone => (CheckOutcome = "NameError" /\ HashObject = ObjectAtCall)


(***************************************************************************)
(* CreateDataFiles, lines 326-390: from the four temp files to the two     *)
(* calls of EctopicInteractionsArray.  A file is the pixel table it holds. *)
(***************************************************************************)
SampleTypes == {"Wt", "Mut"}

Types == SampleTypes \X DataTypes

FlowKeys == {<<0, 0>>, <<0, 1>>}

\* The tables a temp file may hold: some of the keys, one count for all
FlowTables ==
    {PixelTable(K, [k \in K |-> c]) : K \in SUBSET FlowKeys, c \in CountValues}

\* The two outputs of AlignCools(InputFNA, InputFNB, OutputFNA, OutputFNB)
AlignedA(InputA, InputB) == ProjectCountX(PandasMergeInner(InputA, InputB))

AlignedB(InputA, InputB) == ProjectCountY(PandasMergeInner(InputA, InputB))

\* Lines 389-390: the two coolers handed to EctopicInteractionsArray for a
\* data type are entries of Datasets
HandedToEctopic(datasets, dt) == << datasets[<<"Wt", dt>>], datasets[<<"Mut", dt>>] >>

InitFlow ==
    /\ unit = "CreateDataFiles.flow"
    /\ pc = "sample type align"
    /\ Datasets \in [Types -> FlowTables]
    /\ SampleTypeAligned = <<>>
    /\ DataTypeAligned = <<>>
    /\ EctopicArgs = [dt \in DataTypes |-> <<>>]
    /\ OthersIdle(unit)

\* Lines 338-340: for ST in ["Wt", "Mut"], Exp is aligned with Pred
SampleTypeAlign ==
    /\ unit = "CreateDataFiles.flow"
    /\ pc = "sample type align"
    /\ SampleTypeAligned' =
          [t \in Types |->
              IF t[2] = "Exp"
              THEN AlignedA(Datasets[<<t[1], "Exp">>], Datasets[<<t[1], "Pred">>])
              ELSE AlignedB(Datasets[<<t[1], "Exp">>], Datasets[<<t[1], "Pred">>])]
    /\ pc' = "data type align"
    /\ UNCHANGED <<unit, Datasets, DataTypeAligned, EctopicArgs,
                   alignVars, ectopicVars, insVars, randVars, sqlVars, hashVars>>

\* Lines 346-348: for DT in ["Exp", "Pred"], Wt is aligned with Mut
DataTypeAlign ==
    /\ unit = "CreateDataFiles.flow"
    /\ pc = "data type align"
    /\ DataTypeAligned' =
          [t \in Types |->
              IF t[1] = "Wt"
              THEN AlignedA(Datasets[<<"Wt", t[2]>>], Datasets[<<"Mut", t[2]>>])
              ELSE AlignedB(Datasets[<<"Wt", t[2]>>], Datasets[<<"Mut", t[2]>>])]
    /\ pc' = "ectopic Exp"
    /\ UNCHANGED <<unit, Datasets, SampleTypeAligned, EctopicArgs,
                   alignVars, ectopicVars, insVars, randVars, sqlVars, hashVars>>

\* Line 389
EctopicArrayExpCall ==
    /\ unit = "CreateDataFiles.flow"
    /\ pc = "ectopic Exp"
    /\ EctopicArgs' = [EctopicArgs EXCEPT !["Exp"] = HandedToEctopic(Datasets, "Exp")]
    /\ pc' = "ectopic Pred"
    /\ UNCHANGED <<unit, Datasets, SampleTypeAligned, DataTypeAligned,
                   alignVars, ectopicVars, insVars, randVars, sqlVars, hashVars>>

\* Line 390
EctopicArrayPredCall ==
    /\ unit = "CreateDataFiles.flow"
    /\ pc = "ectopic Pred"
    /\ EctopicArgs' = [EctopicArgs EXCEPT !["Pred"] = HandedToEctopic(Datasets, "Pred")]
    /\ pc' = "done"
    /\ UNCHANGED <<unit, Datasets, SampleTypeAligned, DataTypeAligned,
                   alignVars, ectopicVars, insVars, randVars, sqlVars, hashVars>>

NextFlow == SampleTypeAlign \/ DataTypeAlign \/ EctopicArrayExpCall \/ EctopicArrayPredCall

SpecFlow == InitFlow /\ [][NextFlow]_vars

InFlow == unit = "CreateDataFiles.flow"

\* C12: for each data type, the two tables handed to
\* EctopicInteractionsArray are the outputs of AlignCools for the wild-type
\* and mutant files of that data type, so they have the same pixel keys.
C12_AlignedBeforeDifferencing ==
    InFlow =>
        \A dt \in DataTypes :
            EctopicArgs[dt] # <<>> =>
                /\ EctopicArgs[dt][1] = DataTypeAligned[<<"Wt", dt>>]
                /\ EctopicArgs[dt][2] = DataTypeAligned[<<"Mut", dt>>]
                /\ KeysOf(EctopicArgs[dt][1]) = KeysOf(EctopicArgs[dt][2])

\* What is handed is the temp files themselves; the aligned files of line
\* 347 have the same keys as each other, and are read by no later line
FlowHandsUnalignedDatasets ==
    InFlow =>
        /\ \A dt \in DataTypes :
              EctopicArgs[dt] # <<>> =>
                  /\ EctopicArgs[dt][1] = Datasets[<<"Wt", dt>>]
                  /\ EctopicArgs[dt][2] = Datasets[<<"Mut", dt>>]
        /\ DataTypeAligned # <<>> =>
              \A dt \in DataTypes :
                  KeysOf(DataTypeAligned[<<"Wt", dt>>]) = KeysOf(DataTypeAligned[<<"Mut", dt>>])


\* The value assigned to a cell of EctopicArray when z is written to it
CastToDtype(z) == IF IntDtype(Normalized) /\ IsFinite(z) THEN TruncToInt(z) ELSE z

\* C13: the cell (k + n, n) holds the z-score of entry n of diagonal k, and
\* holds 0 when that entry is 0 or the diagonal is skipped; no other cell is
\* written, so every cell (r, c) with c > r is 0.
C13_PlacementLowerTriangle ==
    EctopicDone =>
        LET diags == DiffDiagsOfState
            z == [k \in 1..Size |-> DiagZScores(diags[k])] \o <<>>
        IN  /\ \A r \in Idx, c \in Idx : c > r => At(EctopicArray, r, c) = Zero
            /\ \A k \in Idx, n \in Idx :
                  k + n < Size =>
                      /\ At(EctopicArray, k + n, n) = CastToDtype(z[k + 1][n + 1])
                      /\ ~NonZeroValue(diags[k + 1][n + 1]) =>
                             At(EctopicArray, k + n, n) = Zero

\* A z-score other than 0 is written below the main diagonal, on a diagonal
\* that also has an entry that is 0, and one is written on the main diagonal
C13_Witness ==
    /\ EctopicDone
    /\ \E k \in Idx \ {0} :
          /\ \E n \in 0..(Size - k - 1) : At(EctopicArray, k + n, n) # Zero
          /\ \E n \in 0..(Size - k - 1) : ~NonZeroValue(DiffDiagsOfState[k + 1][n + 1])
    /\ \E n \in Idx : At(EctopicArray, n, n) # Zero

====
